---- MODULE Spec2Model ----
(***************************************************************************)
(* skdim.id.MLE (src/skdim/id/_MLE.py): maximum-likelihood intrinsic       *)
(* dimension estimation.  The model follows one estimator object through   *)
(* its fit calls, one action per stage of fit, and a pure-function         *)
(* specification applies the closed-form estimator to bounded inputs.      *)
(*                                                                         *)
(* Real numbers are kept exact and symbolic:                               *)
(*   - a number a + b*sqrt(2) is the pair <<a, b>>;                        *)
(*   - a sum of logarithms  sum_i ln(p_i/q_i)  is the pair                  *)
(*     <<prod p_i, prod q_i>> in lowest terms (ln is injective, so two      *)
(*     sums are equal exactly when the pairs are);                         *)
(*   - np.mean / np.median / the harmonic combination of an array is a     *)
(*     record holding the bag of the array's entries;                      *)
(*   - a quadrature-based estimate is a record of everything the           *)
(*     integrands and bounds are built from.                               *)
(***************************************************************************)
EXTENDS Integers, Sequences, FiniteSets, Bags, TLC

(***************************************************************************)
(* Bounds of the model.                                                    *)
(***************************************************************************)
\* number of samples in the data set X handed to fit
NPoints == 4
\* the estimator's sigma ranges over 0..MaxSigma
MaxSigma == 1
\* depth at which the interpreter gives up on nested calls (RecursionError)
RecursionLimit == 3
\* the pure-function specification draws Rs with 2..MaxLen entries ...
MaxLen == 3
\* ... each in 1..MaxDist
MaxDist == 3

(***************************************************************************)
(* Program constants.                                                      *)
(***************************************************************************)
\* MLE._N_NEIGHBORS
N_NEIGHBORS == 20
\* default of the constructor's K
DefaultK == 5
\* Rpr = Rk + 100 * sigma
RprFactor == 100

VARIABLES
    self,       \* the estimator's constructor attributes (self.dnoise, ...)
    attrs,      \* names of the result attributes present on the estimator
    results,    \* values of the result attributes (meaningful when in attrs)
    pc,         \* position inside fit: "idle" between calls
    call,       \* the arguments and locals of the fit call in progress / last made
    outcome,    \* how the last fit call ended ("none" before any, "running" inside)
    ghost,      \* bookkeeping of the call: numerical work done, snapshot at entry
    estIn,      \* pure-function specification: the distance vector Rs
    estOut      \* pure-function specification: results per value of unbiased

vars == <<self, attrs, results, pc, call, outcome, ghost, estIn, estOut>>

(***************************************************************************)
(* Arithmetic helpers.                                                     *)
(***************************************************************************)
RECURSIVE Gcd(_, _)
Gcd(a, b) == IF b = 0 THEN a ELSE Gcd(b, a % b)

\* a fraction <<p, q>> of positive integers in lowest terms
Reduce(f) == LET g == Gcd(f[1], f[2]) IN <<f[1] \div g, f[2] \div g>>

RECURSIVE Pow2(_)
Pow2(n) == IF n = 0 THEN 1 ELSE 2 * Pow2(n - 1)

RECURSIVE BagOfSeq(_)
BagOfSeq(s) == IF s = <<>> THEN EmptyBag
               ELSE SetToBag({Head(s)}) (+) BagOfSeq(Tail(s))

\* the entries of a set of integers in ascending order
RECURSIVE SortedSeq(_)
SortedSeq(S) == IF S = {} THEN <<>>
                ELSE LET m == CHOOSE x \in S : \A y \in S : x <= y
                     IN <<m>> \o SortedSeq(S \ {m})

\* s[:n]
Take(s, n) == SubSeq(s, 1, IF n < Len(s) THEN n ELSE Len(s))

\* numbers a + b*sqrt(2)
Real(a) == <<a, 0>>
Sqrt2Times(x) == <<2 * x[2], x[1]>>
RAdd(x, y) == <<x[1] + y[1], x[2] + y[2]>>
RScale(c, x) == <<c * x[1], c * x[2]>>

(***************************************************************************)
(* Values.                                                                 *)
(***************************************************************************)
\* Python's None
None == "None"
\* self.dnoise: None, the name given to the constructor, the static method
\* MLE._dnoiseGaussH, or the lambda that _fit stores
DnoiseName == "dnoiseGaussH"
DnoiseGaussH == "_dnoiseGaussH"
DnoiseLambda == "lambda r, s, sigma, k: r * self.dnoise(r, s, sigma, k)"

ValidApproximations == {"Haro", "guaranteed.convergence", "iteration"}
Approximations == ValidApproximations \cup {"bogus"}
ValidCombs == {"mean", "median", "mle"}
Combs == ValidCombs \cup {"bogus"}

\* how a call can end
Returned == "returned"
NameError == "NameError: name 'warnings' is not defined"
ErrApproximation == "ValueError: Unknown integral_approximation parameter"
ErrIteration == "ValueError: integral_approximation='iteration' not implemented yet"
ErrComb == "ValueError: Invalid comb parameter"
RecursionError == "RecursionError: maximum recursion depth exceeded"
TypeError == "TypeError: 'str' object is not callable"
NoError == "none"

\* marks of numerical work
ClosedForm == "closed_form"
Quad == "scipy.integrate.quad"

(***************************************************************************)
(* The data set and the neighbour search.                                  *)
(* X holds NPoints samples on a line in the plane, sample i at abscissa    *)
(* 2^(i-1) - 1, so that all pairwise distances are distinct.  Rows and     *)
(* indices are numbered from 1 (numpy numbers them from 0).                *)
(***************************************************************************)
Points == 1..NPoints
Pos(i) == Pow2(i - 1) - 1
Abs(x) == IF x < 0 THEN -x ELSE x
Dist(i, j) == Abs(Pos(i) - Pos(j))

\* the k samples nearest to sample i among `others`, nearest first
RECURSIVE Nearest(_, _, _)
Nearest(i, others, k) ==
    IF k = 0 \/ others = {} THEN <<>>
    ELSE LET j == CHOOSE x \in others : \A y \in others : Dist(i, x) <= Dist(i, y)
         IN <<j>> \o Nearest(i, others \ {j}, k - 1)

\* get_nn(X, k): (dists, knnidx), per sample the ascending distances to its
\* k nearest other samples and their indices
get_nn(k) ==
    LET knnidx == [i \in Points |-> Nearest(i, Points \ {i}, k)]
        dists  == [i \in Points |-> [j \in 1..Len(knnidx[i]) |-> Dist(i, knnidx[i][j])]]
    IN <<dists, knnidx>>

(***************************************************************************)
(* _dnoiseGaussH and the density stored in self.dnoise.                    *)
(* Calling self.dnoise(x, Rj, sigma, self.n) inside an integrand: the      *)
(* static method evaluates the Gaussian; the lambda looks self.dnoise up   *)
(* when it is called, so it calls whatever self.dnoise holds at that time. *)
(* The result is the power of r multiplying the Gaussian, or the error.    *)
(***************************************************************************)
RECURSIVE CallDnoise(_, _)
CallDnoise(s, depth) ==
    CASE s.dnoise = DnoiseGaussH -> [raised |-> NoError, rpow |-> 0]
      [] s.dnoise = DnoiseLambda ->
            IF depth = 0 THEN [raised |-> RecursionError, rpow |-> 0]
            ELSE LET inner == CallDnoise(s, depth - 1)
                 IN IF inner.raised # NoError THEN inner
                    ELSE [raised |-> NoError, rpow |-> inner.rpow + 1]
      [] OTHER -> [raised |-> TypeError, rpow |-> 0]

(***************************************************************************)
(* _maxLikDimEstFromR_haro_approx(self, Rs, sigma)                         *)
(***************************************************************************)
RECURSIVE SeqMax(_)
SeqMax(Rs) == IF Len(Rs) = 1 THEN Rs[1]
              ELSE LET m == SeqMax(Tail(Rs)) IN IF Rs[1] > m THEN Rs[1] ELSE m

\* np.sum(np.log(Rk / Rs)) as the fraction whose logarithm it is
RECURSIVE SumLog(_, _)
SumLog(Rk, Rs) ==
    IF Rs = <<>> THEN <<1, 1>>
    ELSE LET rest == SumLog(Rk, Tail(Rs))
         IN Reduce(<<Rk * rest[1], Head(Rs) * rest[2]>>)

KfacBiased(s, k) == k - 1

\* kfac = k - 2 if self.unbiased else k - 1
Kfac(s, k) == IF s.unbiased THEN k - 2 ELSE k - 1

MaxLikDimEstFromR_haro_approx(s, Rs, sigma) ==
    LET k    == Len(Rs)
        kfac == Kfac(s, k)
        Rk   == SeqMax(Rs)
        Rpr  == RAdd(Real(Rk), RScale(RprFactor, sigma))
        d    == CallDnoise(s, RecursionLimit)
    IN IF s.dnoise = None
       THEN [raised |-> NoError, work |-> {ClosedForm}, dens |-> {},
             de |-> [kind |-> "closed", kfac |-> kfac, lnarg |-> SumLog(Rk, Rs)]]
       ELSE IF k - 1 = 0
       THEN [raised |-> NoError, work |-> {}, dens |-> {},
             de |-> [kind |-> "quad", kfac |-> kfac, Rjs |-> <<>>, Rk |-> Rk,
                     sigma |-> sigma, Rpr |-> Rpr, n |-> s.n, rpow |-> 0]]
       ELSE IF d.raised # NoError
       THEN [raised |-> d.raised, work |-> {Quad}, dens |-> {d},
             de |-> [kind |-> "nan"]]
       ELSE [raised |-> NoError, work |-> {Quad}, dens |-> {d},
             de |-> [kind |-> "quad", kfac |-> kfac, Rjs |-> SubSeq(Rs, 1, k - 1),
                     Rk |-> Rk, sigma |-> sigma, Rpr |-> Rpr, n |-> s.n,
                     rpow |-> d.rpow]]

(***************************************************************************)
(* _fit(self, Rs, sigma): the estimator after the call, the error raised   *)
(* (NoError: de is returned), and the numerical work done on the way.      *)
(***************************************************************************)
Fit(s, Rs, sigma) ==
    IF s.integral_approximation \notin ValidApproximations
    THEN [self |-> s, raised |-> ErrApproximation, work |-> {}, dens |-> {},
          de |-> [kind |-> "nan"]]
    ELSE LET s1 == IF s.dnoise = DnoiseName
                   THEN [s EXCEPT !.dnoise = DnoiseGaussH] ELSE s
             s2 == IF s1.integral_approximation # "Haro" /\ s1.dnoise # None
                   THEN [s1 EXCEPT !.dnoise = DnoiseLambda] ELSE s1
             r  == MaxLikDimEstFromR_haro_approx(s2, Rs, Real(s2.sigma))
         IN IF r.raised # NoError
            THEN [self |-> s2, raised |-> r.raised, work |-> r.work,
                  dens |-> r.dens, de |-> r.de]
            ELSE IF s2.integral_approximation = "iteration"
            THEN [self |-> s2, raised |-> ErrIteration, work |-> r.work,
                  dens |-> r.dens, de |-> r.de]
            ELSE [self |-> s2, raised |-> NoError, work |-> r.work,
                  dens |-> r.dens, de |-> r.de]

(***************************************************************************)
(* fit: combination and smoothing of the pointwise estimates.              *)
(***************************************************************************)
NaN == [kind |-> "nan"]

\* np.mean(a), np.median(a), 1 / np.mean(1 / a)
Mean(a) == [kind |-> "mean", terms |-> BagOfSeq(a)]
Median(a) == [kind |-> "median", terms |-> BagOfSeq(a)]
HarmonicMean(a) == [kind |-> "1/mean(1/.)", terms |-> BagOfSeq(a)]

Combine(comb, dimension_pw_) ==
    CASE comb = "mean" -> Mean(dimension_pw_)
      [] comb = "median" -> Median(dimension_pw_)
      [] comb = "mle" -> HarmonicMean(dimension_pw_)
      [] OTHER -> NaN

\* dimension_pw_[point_nn]
Gather(a, idx) == [j \in 1..Len(idx) |-> a[idx[j]]]

SmoothPointNoSelf(dimension_pw_, i, point_nn) == Mean(Gather(dimension_pw_, point_nn))

\* np.mean(np.append(self.dimension_pw_[i], self.dimension_pw_[point_nn]))
SmoothPoint(dimension_pw_, i, point_nn) ==
    Mean(<<dimension_pw_[i]>> \o Gather(dimension_pw_, point_nn))

\* np.sort(np.array(list(set(dists.flatten(order="F")))))[: self.n_neighbors]
GlobalRs(dists, n_neighbors) ==
    Take(SortedSeq(UNION {{dists[i][j] : j \in DOMAIN dists[i]} : i \in DOMAIN dists}),
         n_neighbors)

(***************************************************************************)
(* State.                                                                  *)
(***************************************************************************)
ResultAttrs == {"dimension_pw_", "dimension_", "dimension_pw_smooth_",
                "is_fitted_pw_smooth_", "is_fitted_pw_", "is_fitted_"}

NoResults == [n_neighbors |-> 0, comb |-> "", dimension_pw_ |-> <<>>,
              dimension_ |-> NaN, dimension_pw_smooth_ |-> <<>>]

NoCall == [n_neighbors |-> <<>>, comb |-> "", smooth |-> FALSE, precomputed |-> <<>>,
           dists |-> <<>>, knnidx |-> <<>>, i |-> 0, de |-> <<>>]

\* work: the numerical work done so far in the call; dens: what the calls of
\* self.dnoise made by the integrands came to; stored: the attributes the
\* call has assigned; fits: whether _fit has been entered; neighborhood_based
\* and clamp: the mode of the call and whether it had to clamp
NoGhost == [work |-> {}, dens |-> {}, stored |-> {}, fits |-> FALSE,
            neighborhood_based |-> FALSE, clamp |-> FALSE]

NotComputed == [kind |-> "not computed"]

\* MLE(dnoise, sigma, n=None, integral_approximation, unbiased,
\* neighborhood_based, K): the attributes the constructor sets
Constructed(dnoise, sigma, approx, unbiased, nb, K) ==
    [dnoise |-> dnoise, sigma |-> sigma, n |-> None,
     integral_approximation |-> approx, unbiased |-> unbiased,
     neighborhood_based |-> nb, K |-> K]

\* get_nn(X, k) for every k, computed once
KnnOfX == [k \in 1..(NPoints - 1) |-> get_nn(k)]

\* kneighbors(X, k) of a fitted sklearn NearestNeighbors: as get_nn, but
\* every sample is its own first neighbour, at distance 0
WithSelf(k) ==
    LET nn == KnnOfX[k - 1]
    IN <<[i \in Points |-> <<0>> \o nn[1][i]], [i \in Points |-> <<i>> \o nn[2][i]]>>

\* what the caller may pass as precomputed_knn_arrays: the arrays of a
\* search for all the other samples, or arrays that count each sample among
\* its own neighbours
PrecomputedArrays == {KnnOfX[NPoints - 1], WithSelf(2)}

\* n_neighbors as passed: <<>> is None
NeighborArgs == {<<>>, <<2>>}

Init ==
    /\ self \in {Constructed(d, sg, a, u, nb, K) :
                    d \in {None, DnoiseName}, sg \in 0..MaxSigma,
                    a \in Approximations, u \in BOOLEAN, nb \in BOOLEAN,
                    K \in {2, DefaultK}}
    /\ attrs = {}
    /\ results = NoResults
    /\ pc = "idle"
    /\ call = NoCall
    /\ outcome = NoError
    /\ ghost = NoGhost
    /\ estIn = <<>>
    /\ estOut = [u \in BOOLEAN |-> NotComputed]

(***************************************************************************)
(* The estimator's actions.                                                *)
(***************************************************************************)
\* a call ends with an exception: nothing further is assigned
Raise(err) ==
    /\ pc' = "idle"
    /\ outcome' = err

\* estimator.neighborhood_based = nb, between two calls
SetParams(nb) ==
    /\ pc = "idle"
    /\ self.neighborhood_based # nb
    /\ self' = [self EXCEPT !.neighborhood_based = nb]
    /\ UNCHANGED <<attrs, results, pc, call, outcome, ghost, estIn, estOut>>

\* fit, from its entry to the neighbour arrays (lines 137-158)
FitBegin(n_neighbors_arg, comb, smooth, precomputed_knn_arrays) ==
    LET n_neighbors == IF n_neighbors_arg = <<>> THEN N_NEIGHBORS
                       ELSE n_neighbors_arg[1]
        clamp == n_neighbors >= NPoints \/ self.K >= NPoints
        knn == IF precomputed_knn_arrays # <<>> THEN precomputed_knn_arrays
               ELSE IF self.neighborhood_based THEN KnnOfX[n_neighbors]
               ELSE KnnOfX[self.K]
        args == [NoCall EXCEPT !.n_neighbors = n_neighbors_arg, !.comb = comb,
                               !.smooth = smooth,
                               !.precomputed = precomputed_knn_arrays]
        g == [NoGhost EXCEPT !.neighborhood_based = self.neighborhood_based,
                             !.clamp = clamp]
    IN /\ pc = "idle"
       \* the caller either has precomputed arrays and passes them to every
       \* call, or has none
       /\ outcome # NoError => precomputed_knn_arrays = call.precomputed
       /\ IF clamp
          THEN \* warnings.warn(...): the module never imports warnings
               /\ Raise(NameError)
               /\ call' = args
               /\ ghost' = g
               /\ UNCHANGED <<self, attrs, results>>
          ELSE /\ results' = [results EXCEPT !.n_neighbors = n_neighbors,
                                             !.comb = comb]
               /\ attrs' = attrs \cup {"n_neighbors", "comb"}
               /\ call' = [args EXCEPT !.dists = knn[1], !.knnidx = knn[2], !.i = 1,
                                       !.de = [r \in DOMAIN knn[1] |-> NaN]]
               /\ ghost' = [g EXCEPT !.stored = {"n_neighbors", "comb"}]
               /\ pc' = IF self.neighborhood_based THEN "pointwise" ELSE "global"
               /\ outcome' = "running"
               /\ UNCHANGED self
       /\ UNCHANGED <<estIn, estOut>>

\* what a call of _fit leaves in the bookkeeping
AfterFit(r) == [ghost EXCEPT !.work = @ \cup r.work, !.dens = @ \cup r.dens,
                             !.fits = TRUE]

\* _maxLikPointwiseDimEst, one turn of its loop (lines 251-253)
PointwiseStep ==
    LET Rs == call.dists[call.i]
        r  == Fit(self, Rs, Real(self.sigma))
    IN /\ pc = "pointwise"
       /\ self' = r.self
       /\ ghost' = AfterFit(r)
       /\ IF r.raised # NoError
          THEN /\ Raise(r.raised)
               /\ UNCHANGED call
          ELSE /\ call' = [call EXCEPT !.de[call.i] = r.de, !.i = @ + 1]
               /\ pc' = IF call.i = Len(call.dists) THEN "combine" ELSE "pointwise"
               /\ UNCHANGED outcome
       /\ UNCHANGED <<attrs, results, estIn, estOut>>

\* fit, neighbourhood based: the pointwise estimates are stored and combined
\* (lines 161-172)
CombineStep ==
    /\ pc = "combine"
    /\ IF results.comb \in ValidCombs
       THEN /\ results' = [results EXCEPT !.dimension_pw_ = call.de,
                               !.dimension_ = Combine(results.comb, call.de)]
            /\ attrs' = attrs \cup {"dimension_pw_", "dimension_"}
            /\ ghost' = [ghost EXCEPT !.stored = @ \cup {"dimension_pw_", "dimension_"}]
            /\ pc' = IF call.smooth THEN "smooth" ELSE "finish"
            /\ UNCHANGED outcome
       ELSE /\ results' = [results EXCEPT !.dimension_pw_ = call.de]
            /\ attrs' = attrs \cup {"dimension_pw_"}
            /\ ghost' = [ghost EXCEPT !.stored = @ \cup {"dimension_pw_"}]
            /\ Raise(ErrComb)
    /\ UNCHANGED <<self, call, estIn, estOut>>

\* fit, smooth=True (lines 175-181)
SmoothStep ==
    /\ pc = "smooth"
    /\ results' = [results EXCEPT !.dimension_pw_smooth_ =
                      [i \in DOMAIN call.knnidx |->
                          SmoothPoint(results.dimension_pw_, i, call.knnidx[i])]]
    /\ attrs' = attrs \cup {"dimension_pw_smooth_", "is_fitted_pw_smooth_"}
    /\ ghost' = [ghost EXCEPT !.stored = @ \cup {"dimension_pw_smooth_",
                                                 "is_fitted_pw_smooth_"}]
    /\ pc' = "finish"
    /\ UNCHANGED <<self, call, outcome, estIn, estOut>>

\* fit, not neighbourhood based (lines 185-189)
GlobalStep ==
    LET Rs == GlobalRs(call.dists, results.n_neighbors)
        r  == Fit(self, Rs, Sqrt2Times(Real(self.sigma)))
    IN /\ pc = "global"
       /\ self' = r.self
       /\ ghost' = [AfterFit(r) EXCEPT !.stored =
                       @ \cup (IF r.raised = NoError THEN {"dimension_"} ELSE {})]
       /\ IF r.raised # NoError
          THEN /\ Raise(r.raised)
               /\ UNCHANGED <<attrs, results>>
          ELSE /\ results' = [results EXCEPT !.dimension_ = r.de]
               /\ attrs' = attrs \cup {"dimension_"}
               /\ pc' = "finish"
               /\ UNCHANGED outcome
       /\ UNCHANGED <<call, estIn, estOut>>

\* fit returns self (lines 182, 193-194)
FinishStep ==
    LET flags == IF self.neighborhood_based THEN {"is_fitted_pw_", "is_fitted_"}
                 ELSE {"is_fitted_"}
    IN /\ pc = "finish"
       /\ attrs' = attrs \cup flags
       /\ ghost' = [ghost EXCEPT !.stored = @ \cup flags]
       /\ pc' = "idle"
       /\ outcome' = Returned
       /\ UNCHANGED <<self, results, call, estIn, estOut>>

Next ==
    \/ \E nb \in BOOLEAN : SetParams(nb)
    \/ \E n \in NeighborArgs, comb \in Combs, smooth \in BOOLEAN,
          pre \in {<<>>} \cup PrecomputedArrays :
          FitBegin(n, comb, smooth, pre)
    \/ PointwiseStep
    \/ CombineStep
    \/ SmoothStep
    \/ GlobalStep
    \/ FinishStep

Spec == Init /\ [][Next]_vars

(***************************************************************************)
(* The pure-function specification: _fit, and through it                   *)
(* _maxLikDimEstFromR_haro_approx, applied to one distance vector by a     *)
(* default estimator with unbiased off and on.                             *)
(***************************************************************************)
RECURSIVE SeqsOfLen(_)
SeqsOfLen(n) == IF n = 0 THEN {<<>>}
                ELSE {Append(s, x) : s \in SeqsOfLen(n - 1), x \in 1..MaxDist}

RsInputs == UNION {SeqsOfLen(n) : n \in 2..MaxLen} \cup {<<1, 2, 3, 4, 5>>}

InitEst ==
    /\ self = Constructed(None, 0, "Haro", FALSE, TRUE, DefaultK)
    /\ attrs = {}
    /\ results = NoResults
    /\ pc = "idle"
    /\ call = NoCall
    /\ outcome = NoError
    /\ ghost = NoGhost
    /\ estIn \in RsInputs
    /\ estOut = [u \in BOOLEAN |-> NotComputed]

EstApply(u) ==
    /\ estOut[u] = NotComputed
    /\ estOut' = [estOut EXCEPT ![u] =
                     Fit([self EXCEPT !.unbiased = u], estIn, Real(self.sigma)).de]
    /\ UNCHANGED <<self, attrs, results, pc, call, outcome, ghost, estIn>>

NextEst == \E u \in BOOLEAN : EstApply(u)

SpecEst == InitEst /\ [][NextEst]_vars

(***************************************************************************)
(* Properties.                                                             *)
(***************************************************************************)
\* a fit call has been made and has ended
CallEnded == pc = "idle" /\ outcome # NoError

\* C1: with integral_approximation = "iteration", once _fit has been entered
\* the call has ended with the 'not implemented' error and no closed-form
\* estimate and no integral has been computed on the way.
C1_IterationFailsBeforeWork ==
    (self.integral_approximation = "iteration" /\ ghost.fits)
        => (outcome = ErrIteration /\ ghost.work = {})

\* C2: a fit call with a comb outside {mean, median, mle} ends with an error,
\* having done no numerical work and having stored no pointwise estimate,
\* no dimension and no fitted flag.
C2_InvalidCombFailsBeforeWork ==
    (CallEnded /\ call.comb \notin ValidCombs)
        => /\ outcome # Returned
           /\ ghost.work = {}
           /\ ghost.stored \cap ResultAttrs = {}

\* C3: a call in which n_neighbors or K is not below len(X) does not fail
\* because of the clamp.
C3_ClampIsNotFatal ==
    (CallEnded /\ ghost.clamp) => outcome # NameError

\* C4: the estimate of a call that is not neighbourhood based, under a noise
\* model, is computed with the noise scale sqrt(2) * self.sigma, also in
\* Rpr = Rk + 100 * sigma.
C4_GlobalUsesSqrt2Sigma ==
    (/\ pc \in {"finish", "idle"}
     /\ "dimension_" \in ghost.stored
     /\ ~ghost.neighborhood_based
     /\ results.dimension_.kind = "quad")
        => LET sigma == Sqrt2Times(Real(self.sigma))
           IN /\ results.dimension_.sigma = sigma
              /\ results.dimension_.Rpr =
                    RAdd(Real(results.dimension_.Rk), RScale(RprFactor, sigma))

\* C5: when integral_approximation is not "Haro", every density the
\* integrands call evaluates, as r times the Gaussian with one factor of r.
C5_DensityHasOneFactorOfR ==
    self.integral_approximation # "Haro"
        => \A d \in ghost.dens : d.raised = NoError /\ d.rpow = 1

\* C6: after a call has returned, the estimator exposes no pointwise
\* estimates unless the call was neighbourhood based, and no smoothed
\* estimates unless the call was made with smooth=True.
C6_ResultsReflectLastCall ==
    (CallEnded /\ outcome = Returned)
        => /\ ~ghost.neighborhood_based
                => attrs \cap {"dimension_pw_", "is_fitted_pw_"} = {}
           /\ ~call.smooth
                => attrs \cap {"dimension_pw_smooth_", "is_fitted_pw_smooth_"} = {}

\* the bag holding the estimate of point i once and the estimate of each
\* entry of row once
SelfAndRow(pw, i, row) ==
    LET es == {pw[i]} \cup {pw[row[j]] : j \in DOMAIN row}
    IN [e \in es |-> (IF e = pw[i] THEN 1 ELSE 0)
                     + Cardinality({j \in DOMAIN row : pw[row[j]] = e})]

Smoothed == pc \in {"finish", "idle"} /\ "dimension_pw_smooth_" \in ghost.stored

\* C7 (as amended): after smoothing, the smoothed estimate of every point is
\* the mean of its own pointwise estimate, once, and the pointwise estimate
\* of each entry of its row of the neighbour indices, once; and the
\* smoothing step changes neither the pointwise estimates nor the dimension.
C7_SmoothedIsMeanOfSelfAndRow ==
    /\ [](Smoothed =>
            \A i \in DOMAIN call.knnidx :
                results.dimension_pw_smooth_[i] =
                    [kind |-> "mean",
                     terms |-> SelfAndRow(results.dimension_pw_, i, call.knnidx[i])])
    /\ [][pc = "smooth" =>
            /\ results'.dimension_pw_ = results.dimension_pw_
            /\ results'.dimension_ = results.dimension_]_vars

\* C7 witness: a call with smooth=True on precomputed arrays has returned
C7_Witness ==
    /\ CallEnded /\ outcome = Returned
    /\ call.smooth /\ call.precomputed # <<>>
    /\ "dimension_pw_smooth_" \in ghost.stored

\* C7 as first stated: the row of every point holds n_neighbors entries,
\* none of them the point itself and no two the same, and the smoothed
\* estimate is the mean over the point and these.
C7_MeanOverNNeighborsNeighbours ==
    Smoothed =>
        \A i \in DOMAIN call.knnidx :
            /\ Len(call.knnidx[i]) = results.n_neighbors
            /\ \A j \in DOMAIN call.knnidx[i] : call.knnidx[i][j] # i
            /\ Cardinality({call.knnidx[i][j] : j \in DOMAIN call.knnidx[i]})
                  = Len(call.knnidx[i])
            /\ results.dimension_pw_smooth_[i] =
                  [kind |-> "mean",
                   terms |-> SelfAndRow(results.dimension_pw_, i, call.knnidx[i])]

\* the claim's sum over all k entries of ln(Rk / Rs[i]), Rk the largest entry
RECURSIVE Product(_)
Product(s) == IF s = <<>> THEN 1 ELSE Head(s) * Product(Tail(s))
RECURSIVE Power(_, _)
Power(b, n) == IF n = 0 THEN 1 ELSE b * Power(b, n - 1)
LargestEntry(Rs) == CHOOSE m \in {Rs[i] : i \in DOMAIN Rs} : \A i \in DOMAIN Rs : Rs[i] <= m
SumOfLogs(Rs) == Reduce(<<Power(LargestEntry(Rs), Len(Rs)), Product(Rs)>>)

\* C8: without noise the estimate of Rs is kfac / sum_i ln(Rk / Rs[i]) with
\* kfac = k - 2 if unbiased else k - 1, so that the unbiased estimate is the
\* biased one times (k - 2) / (k - 1); for Rs = [1, 2, 3, 4, 5], kfac is 4
\* and 3 over the same denominator.
C8_ClosedFormAndKfacRatio ==
    LET k == Len(estIn)
    IN /\ \A u \in BOOLEAN :
            estOut[u] # NotComputed =>
                estOut[u] = [kind |-> "closed",
                             kfac |-> IF u THEN k - 2 ELSE k - 1,
                             lnarg |-> SumOfLogs(estIn)]
       /\ (estOut[TRUE] # NotComputed /\ estOut[FALSE] # NotComputed) =>
            /\ estOut[TRUE].lnarg = estOut[FALSE].lnarg
            /\ estOut[TRUE].kfac * (k - 1) = estOut[FALSE].kfac * (k - 2)
            /\ estIn = <<1, 2, 3, 4, 5>> =>
                  /\ estOut[FALSE].kfac = 4 /\ estOut[TRUE].kfac = 3
                  /\ estOut[FALSE].lnarg = <<625, 24>>

\* C8 witness: both estimates of [1, 2, 3, 4, 5] have been computed
C8_Witness ==
    /\ estIn = <<1, 2, 3, 4, 5>>
    /\ estOut[TRUE] # NotComputed /\ estOut[FALSE] # NotComputed

\* C9: a fit call with integral_approximation outside the three named modes
\* ends with the validation error, having attempted no integration and no
\* closed-form estimate and having stored no estimate.
C9_UnknownApproximationIsValidationError ==
    (CallEnded /\ self.integral_approximation \notin ValidApproximations)
        => /\ outcome = ErrApproximation
           /\ ghost.work = {}
           /\ ghost.stored \cap ResultAttrs = {}

\* C10: a turn of the pointwise loop leaves the estimator's configuration
\* (dnoise, sigma, n, integral_approximation, unbiased, neighborhood_based,
\* K) as it was.
C10_PointwisePhaseWritesNoConfiguration ==
    [][pc = "pointwise" => self' = self]_vars

====
